---- MODULE Spec2Model ----
(***************************************************************************)
(* Request / Transaction lifecycle of the book-exchange request service.   *)
(*                                                                         *)
(* The state is the two mongoose collections (Request, Transaction), the   *)
(* generators of fresh ObjectIds, the PUT /requests/:id handlers that have *)
(* written the Request and are suspended at `await transaction.save()`,    *)
(* and the HTTP response emitted by the last step.                         *)
(*                                                                         *)
(* Every handler that awaits one store operation is one action.  The       *)
(* PUT /requests/:id handler awaits two store operations when the status   *)
(* is Accepted, so it is two actions: UpdateStatus (validation and         *)
(* findByIdAndUpdate) and AcceptSave (transaction.save and the response).  *)
(* Timestamps (RequestDate, TransactionDate, createdAt, updatedAt) and the *)
(* bearer-token middleware are not part of the model.                      *)
(***************************************************************************)
EXTENDS Integers, FiniteSets, Bags, TLC

\* Bounds of the model ------------------------------------------------------

\* number of Request documents ever created (ObjectIds 1..MaxRequests)
MaxRequests == 2

\* number of Transaction documents ever created or being created
MaxTransactions == 2

\* JavaScript values of a JSON request body --------------------------------

Undef == [kind |-> "undefined", str |-> "", num |-> 0]

Str(s) == [kind |-> "string", str |-> s, num |-> 0]

Num(n) == [kind |-> "number", str |-> "", num |-> n]

\* !v of JavaScript
Falsy(v) ==
  \/ v.kind = "undefined"
  \/ v.kind = "string" /\ v.str = ""
  \/ v.kind = "number" /\ v.num = 0

\* mongoose `required: true` on a String path
RequiredString(v) == v.kind = "string" /\ v.str # ""

\* strings that Number() converts, with their values
NumericStrings == {"7"}

NumericValue(s) == IF s = "7" THEN 7 ELSE 0

\* mongoose cast of a body value to a Number path succeeds
CastsToNumber(v) ==
  \/ v.kind = "number"
  \/ v.kind = "string" /\ v.str \in NumericStrings

CastNumber(v) == IF v.kind = "number" THEN v.num ELSE NumericValue(v.str)

\* Schemas ------------------------------------------------------------------

RequestStatusEnum == {"Pending", "Accepted", "Rejected", "Modified"}

DeliveryMethodEnum == {"In-person", "Shipping"}

TransactionStatusEnum ==
  {"Pending", "In Progress", "Shipping", "Delivered", "Cancelled"}

\* variant: the handler lets through every status of the schema's enum
UpdatableStatuses_SchemaEnum == RequestStatusEnum

\* the statuses PUT /requests/:id lets through
UpdatableStatuses == {"Pending", "Accepted", "Rejected"}

\* Identifiers --------------------------------------------------------------

\* a path parameter that does not cast to an ObjectId
BadId == 0

RequestIds == 1..MaxRequests

TransactionIds == 1..MaxTransactions

RequestIdInputs == {BadId} \cup RequestIds

TransactionIdInputs == {BadId} \cup TransactionIds

\* Inputs -------------------------------------------------------------------

Users == {"u1", "u2", "u3"}

UserInputs == Users \cup {"u4"}

BaseBody ==
  [RequestedBy |-> Str("u1"), RequestedTo |-> Str("u2"), BookID |-> Str("b1"),
   DeliveryMethod |-> Str("In-person"), Duration |-> Num(7),
   NegotiatedTerms |-> Undef]

ValidBodies ==
  { BaseBody,
    [RequestedBy |-> Str("u2"), RequestedTo |-> Str("u3"), BookID |-> Str("b2"),
     DeliveryMethod |-> Str("Shipping"), Duration |-> Str("7"),
     NegotiatedTerms |-> Str("swap")] }

\* the valid bodies, and the first of them with one field absent, empty or
\* otherwise unusable
CreateInputs ==
  ValidBodies
  \cup { [BaseBody EXCEPT !.RequestedBy = v] : v \in {Undef, Str("")} }
  \cup { [BaseBody EXCEPT !.RequestedTo = v] : v \in {Undef, Str("")} }
  \cup { [BaseBody EXCEPT !.BookID = v] : v \in {Undef, Str("")} }
  \cup { [BaseBody EXCEPT !.DeliveryMethod = v] :
           v \in {Undef, Str(""), Str("Courier")} }
  \cup { [BaseBody EXCEPT !.Duration = v] :
           v \in {Undef, Str(""), Num(0), Str("abc")} }

StatusInputs ==
  {Undef, Str("Pending"), Str("Accepted"), Str("Rejected"), Str("Modified"),
   Str("Bogus")}

TransactionStatusInputs == {Undef, Str("Delivered"), Str("Bogus")}

\* bodies of POST /transactions: empty, with the fields the handler reads,
\* with the fields the schema requires, and with an unrecognized status
TransactionCreateInputs ==
  { [ExchangeRequestID |-> Undef, RequestID |-> Undef, OwnerID |-> Undef,
     BooKID |-> Undef, Status |-> Undef],
    [ExchangeRequestID |-> Num(1), RequestID |-> Undef, OwnerID |-> Undef,
     BooKID |-> Undef, Status |-> Str("Pending")],
    [ExchangeRequestID |-> Num(1), RequestID |-> Num(1), OwnerID |-> Str("u2"),
     BooKID |-> Str("b1"), Status |-> Undef],
    [ExchangeRequestID |-> Undef, RequestID |-> Num(1), OwnerID |-> Str("u2"),
     BooKID |-> Str("b1"), Status |-> Str("Shipping")],
    [ExchangeRequestID |-> Undef, RequestID |-> Num(1), OwnerID |-> Str("u2"),
     BooKID |-> Str("b1"), Status |-> Str("Bogus")] }

\* State --------------------------------------------------------------------

VARIABLES
  requests,           \* the Request collection: a set of documents
  transactions,       \* the Transaction collection: a set of documents
  nextRequestId,      \* the next fresh Request ObjectId
  nextTransactionId,  \* the next fresh Transaction ObjectId
  accepting,          \* bag of updatedRequest held by handlers awaiting save
  resp                \* the response emitted by the last step

vars ==
  <<requests, transactions, nextRequestId, nextTransactionId, accepting, resp>>

NoResponse == [op |-> "none", code |-> 0]

Init ==
  /\ requests = {}
  /\ transactions = {}
  /\ nextRequestId = 1
  /\ nextTransactionId = 1
  /\ accepting = EmptyBag
  /\ resp = NoResponse

\* Request documents --------------------------------------------------------

\* mongoose validation of `new Request({...})` at save()
ValidRequest(b) ==
  /\ RequiredString(b.RequestedBy)
  /\ RequiredString(b.RequestedTo)
  /\ RequiredString(b.BookID)
  /\ RequiredString(b.DeliveryMethod)
  /\ b.DeliveryMethod.str \in DeliveryMethodEnum
  /\ b.Duration.kind # "undefined"
  /\ CastsToNumber(b.Duration)

\* the document `new Request({...})` stores for body b under ObjectId id
NewRequest(b, id) ==
  [id |-> id,
   RequestedBy |-> b.RequestedBy.str,
   RequestedTo |-> b.RequestedTo.str,
   BookID |-> b.BookID.str,
   Status |-> "Pending",
   DeliveryMethod |-> b.DeliveryMethod.str,
   Duration |-> CastNumber(b.Duration),
   NegotiatedTerms |-> IF b.NegotiatedTerms.kind = "undefined" THEN ""
                       ELSE b.NegotiatedTerms.str]

\* the `if (!RequestedBy || !BookID || !DeliveryMethod || !Duration)` test
MissingRequired(b) ==
  \/ Falsy(b.RequestedBy)
  \/ Falsy(b.BookID)
  \/ Falsy(b.DeliveryMethod)
  \/ Falsy(b.Duration)

\* variant: Duration neither tested by the handler nor required by the schema
RejectsCreate_DurationOptional(b) ==
  \/ Falsy(b.RequestedBy) \/ Falsy(b.BookID) \/ Falsy(b.DeliveryMethod)
  \/ ~RequiredString(b.RequestedTo)
  \/ b.DeliveryMethod.str \notin DeliveryMethodEnum

\* POST /requests answers 400: the handler's own test, or save() throwing
RejectsCreate(b) == MissingRequired(b) \/ ~ValidRequest(b)

\* variant: the identifier derived from the number of stored documents
FreshRequestId_CountPlusOne == Cardinality(requests) + 1

\* the _id mongoose gives a new Request: an ObjectId no document ever had
FreshRequestId == nextRequestId

\* variant: the filter without its RequestedTo branch
MatchesUser_RequesterOnly(r, u) == r.RequestedBy = u

\* the filter {$or: [{RequestedBy: userId}, {RequestedTo: userId}]}
MatchesUser(r, u) == r.RequestedBy = u \/ r.RequestedTo = u

\* Request.findById
FindRequest(id) == {r \in requests : r.id = id}

\* `['Pending', 'Accepted', 'Rejected'].includes(status)`
StatusAllowed(status) ==
  status.kind = "string" /\ status.str \in UpdatableStatuses

\* Transaction documents ----------------------------------------------------

\* mongoose validation of a Transaction at save(): required paths and enum
ValidTransaction(c) ==
  /\ c.RequestID.kind = "number" /\ c.RequestID.num # BadId
  /\ RequiredString(c.OwnerID)
  /\ RequiredString(c.BooKID)
  /\ c.Status.kind = "string" /\ c.Status.str \in TransactionStatusEnum

\* the stored document of a valid candidate c under ObjectId id
StoredTransaction(c, id) ==
  [id |-> id,
   RequestID |-> c.RequestID.num,
   OwnerID |-> c.OwnerID.str,
   BooKID |-> c.BooKID.str,
   Status |-> c.Status.str]

\* schema default of Status
DefaultStatus(v) == IF v.kind = "undefined" THEN Str("Pending") ELSE v

\* variant: the owner taken from RequestedBy
TransactionOfRequest_RequesterAsOwner(u) ==
  [RequestID |-> Num(u.id),
   OwnerID |-> Str(u.RequestedBy),
   BooKID |-> Str(u.BookID),
   Status |-> Str("Pending")]

\* `new Transaction({RequestID: requestId, OwnerID: updatedRequest.RequestedTo,
\*  BooKID: updatedRequest.BookID, Status: 'Pending', ...})`
TransactionOfRequest(u) ==
  [RequestID |-> Num(u.id),
   OwnerID |-> Str(u.RequestedTo),
   BooKID |-> Str(u.BookID),
   Status |-> Str("Pending")]

\* variant: the handler reading the paths the schema declares
TransactionOfBody_SchemaFields(b) ==
  [RequestID |-> b.RequestID,
   OwnerID |-> b.OwnerID,
   BooKID |-> b.BooKID,
   Status |-> DefaultStatus(b.Status)]

\* `new Transaction({ExchangeRequestID, Status, BookReturnedDate})`: the
\* schema has no ExchangeRequestID path, so strict mode drops it, and the
\* handler reads nothing else from the body
TransactionOfBody(b) ==
  [RequestID |-> Undef,
   OwnerID |-> Undef,
   BooKID |-> Undef,
   Status |-> DefaultStatus(b.Status)]

\* Transaction.findById
FindTransaction(id) == {t \in transactions : t.id = id}

\* Transaction.findOne({RequestID: id}): the first match in insertion order
FindOneByRequest(id) ==
  LET m == {t \in transactions : t.RequestID = id}
  IN  {t \in m : \A o \in m : t.id <= o.id}

\* number of Transactions stored or about to be stored
TransactionsStarted == (nextTransactionId - 1) + BagCardinality(accepting)

\* Request handlers ---------------------------------------------------------

\* POST /requests
Create(b) ==
  /\ b \in CreateInputs
  /\ UNCHANGED <<transactions, nextTransactionId, accepting>>
  /\ IF RejectsCreate(b)
     THEN /\ resp' = [op |-> "Create", input |-> b, code |-> 400, out |-> {}]
          /\ UNCHANGED <<requests, nextRequestId>>
     ELSE /\ nextRequestId <= MaxRequests
          /\ requests' = requests \cup {NewRequest(b, FreshRequestId)}
          /\ nextRequestId' = nextRequestId + 1
          /\ resp' = [op |-> "Create", input |-> b, code |-> 201,
                      out |-> {NewRequest(b, FreshRequestId)}]

\* GET /requests/user/:userId
ListForUser(u) ==
  /\ u \in UserInputs
  /\ resp' = [op |-> "ListForUser", user |-> u, code |-> 200,
              out |-> {r \in requests : MatchesUser(r, u)}]
  /\ UNCHANGED <<requests, transactions, nextRequestId, nextTransactionId,
                 accepting>>

\* GET /requests/:id
Get(id) ==
  /\ id \in RequestIdInputs
  /\ resp' = [op |-> "Get", id |-> id,
              code |-> IF id = BadId THEN 500
                       ELSE IF FindRequest(id) = {} THEN 404 ELSE 200,
              out |-> FindRequest(id)]
  /\ UNCHANGED <<requests, transactions, nextRequestId, nextTransactionId,
                 accepting>>

\* variant: a transition allowed only from Pending
UpdateStatus_OnlyFromPending(id, status) ==
  /\ id \in RequestIdInputs
  /\ status \in StatusInputs
  /\ UNCHANGED <<transactions, nextRequestId, nextTransactionId>>
  /\ IF ~StatusAllowed(status)
     THEN /\ resp' = [op |-> "UpdateStatus", id |-> id, status |-> status,
                      code |-> 400, out |-> {}]
          /\ UNCHANGED <<requests, accepting>>
     ELSE IF id = BadId
     THEN /\ resp' = [op |-> "UpdateStatus", id |-> id, status |-> status,
                      code |-> 500, out |-> {}]
          /\ UNCHANGED <<requests, accepting>>
     ELSE IF FindRequest(id) = {}
             \/ \E x \in FindRequest(id) : x.Status # "Pending"
     THEN /\ resp' = [op |-> "UpdateStatus", id |-> id, status |-> status,
                      code |-> 404, out |-> {}]
          /\ UNCHANGED <<requests, accepting>>
     ELSE LET r == CHOOSE x \in FindRequest(id) : TRUE
              updatedRequest == [r EXCEPT !.Status = status.str]
          IN  /\ requests' = (requests \ {r}) \cup {updatedRequest}
              /\ IF status.str = "Accepted"
                 THEN /\ TransactionsStarted < MaxTransactions
                      /\ accepting' = accepting (+) SetToBag({updatedRequest})
                      /\ resp' = NoResponse
                 ELSE /\ accepting' = accepting
                      /\ resp' = [op |-> "UpdateStatus", id |-> id,
                                  status |-> status, code |-> 200,
                                  out |-> {updatedRequest}]

\* variant: a rejection removing the Transactions of the Request
UpdateStatus_RejectCancels(id, status) ==
  /\ id \in RequestIdInputs
  /\ status \in StatusInputs
  /\ UNCHANGED <<nextRequestId, nextTransactionId>>
  /\ transactions' =
       IF status = Str("Rejected") /\ FindRequest(id) # {}
       THEN {t \in transactions : t.RequestID # id}
       ELSE transactions
  /\ IF ~StatusAllowed(status)
     THEN /\ resp' = [op |-> "UpdateStatus", id |-> id, status |-> status,
                      code |-> 400, out |-> {}]
          /\ UNCHANGED <<requests, accepting>>
     ELSE IF id = BadId
     THEN /\ resp' = [op |-> "UpdateStatus", id |-> id, status |-> status,
                      code |-> 500, out |-> {}]
          /\ UNCHANGED <<requests, accepting>>
     ELSE IF FindRequest(id) = {}
     THEN /\ resp' = [op |-> "UpdateStatus", id |-> id, status |-> status,
                      code |-> 404, out |-> {}]
          /\ UNCHANGED <<requests, accepting>>
     ELSE LET r == CHOOSE x \in FindRequest(id) : TRUE
              updatedRequest == [r EXCEPT !.Status = status.str]
          IN  /\ requests' = (requests \ {r}) \cup {updatedRequest}
              /\ IF status.str = "Accepted"
                 THEN /\ TransactionsStarted < MaxTransactions
                      /\ accepting' = accepting (+) SetToBag({updatedRequest})
                      /\ resp' = NoResponse
                 ELSE /\ accepting' = accepting
                      /\ resp' = [op |-> "UpdateStatus", id |-> id,
                                  status |-> status, code |-> 200,
                                  out |-> {updatedRequest}]

\* PUT /requests/:id up to and including findByIdAndUpdate; the response when
\* the status is not Accepted
UpdateStatus(id, status) ==
  /\ id \in RequestIdInputs
  /\ status \in StatusInputs
  /\ UNCHANGED <<transactions, nextRequestId, nextTransactionId>>
  /\ IF ~StatusAllowed(status)
     THEN /\ resp' = [op |-> "UpdateStatus", id |-> id, status |-> status,
                      code |-> 400, out |-> {}]
          /\ UNCHANGED <<requests, accepting>>
     ELSE IF id = BadId
     THEN /\ resp' = [op |-> "UpdateStatus", id |-> id, status |-> status,
                      code |-> 500, out |-> {}]
          /\ UNCHANGED <<requests, accepting>>
     ELSE IF FindRequest(id) = {}
     THEN /\ resp' = [op |-> "UpdateStatus", id |-> id, status |-> status,
                      code |-> 404, out |-> {}]
          /\ UNCHANGED <<requests, accepting>>
     ELSE LET r == CHOOSE x \in FindRequest(id) : TRUE
              updatedRequest == [r EXCEPT !.Status = status.str]
          IN  /\ requests' = (requests \ {r}) \cup {updatedRequest}
              /\ IF status.str = "Accepted"
                 THEN /\ TransactionsStarted < MaxTransactions
                      /\ accepting' = accepting (+) SetToBag({updatedRequest})
                      /\ resp' = NoResponse
                 ELSE /\ accepting' = accepting
                      /\ resp' = [op |-> "UpdateStatus", id |-> id,
                                  status |-> status, code |-> 200,
                                  out |-> {updatedRequest}]

\* variant: the insert skipped when a Transaction already references the
\* Request
AcceptSave_Deduplicating(u) ==
  /\ BagIn(u, accepting)
  /\ accepting' = accepting (-) SetToBag({u})
  /\ UNCHANGED <<requests, nextRequestId>>
  /\ resp' = [op |-> "UpdateStatus", id |-> u.id,
              status |-> Str("Accepted"), code |-> 200, out |-> {u}]
  /\ IF \E t \in transactions : t.RequestID = u.id
     THEN UNCHANGED <<transactions, nextTransactionId>>
     ELSE /\ transactions' = transactions \cup
                {StoredTransaction(TransactionOfRequest(u), nextTransactionId)}
          /\ nextTransactionId' = nextTransactionId + 1

\* PUT /requests/:id from `await transaction.save()` to the response
AcceptSave(u) ==
  /\ BagIn(u, accepting)
  /\ accepting' = accepting (-) SetToBag({u})
  /\ UNCHANGED <<requests, nextRequestId>>
  /\ IF ValidTransaction(TransactionOfRequest(u))
     THEN /\ transactions' = transactions \cup
                {StoredTransaction(TransactionOfRequest(u), nextTransactionId)}
          /\ nextTransactionId' = nextTransactionId + 1
          /\ resp' = [op |-> "UpdateStatus", id |-> u.id,
                      status |-> Str("Accepted"), code |-> 200, out |-> {u}]
     ELSE /\ resp' = [op |-> "UpdateStatus", id |-> u.id,
                      status |-> Str("Accepted"), code |-> 500, out |-> {}]
          /\ UNCHANGED <<transactions, nextTransactionId>>

\* variant: the Transactions of the Request deleted with it
Delete_Cascading(id) ==
  /\ id \in RequestIdInputs
  /\ requests' = requests \ FindRequest(id)
  /\ transactions' = {t \in transactions : t.RequestID # id}
  /\ resp' = [op |-> "Delete", id |-> id,
              code |-> IF id = BadId THEN 500
                       ELSE IF FindRequest(id) = {} THEN 404 ELSE 200,
              out |-> {}]
  /\ UNCHANGED <<nextRequestId, nextTransactionId, accepting>>

\* DELETE /requests/:id
Delete(id) ==
  /\ id \in RequestIdInputs
  /\ requests' = requests \ FindRequest(id)
  /\ resp' = [op |-> "Delete", id |-> id,
              code |-> IF id = BadId THEN 500
                       ELSE IF FindRequest(id) = {} THEN 404 ELSE 200,
              out |-> {}]
  /\ UNCHANGED <<transactions, nextRequestId, nextTransactionId, accepting>>

\* Transaction handlers -----------------------------------------------------

\* POST /transactions
TransactionCreate(b) ==
  /\ b \in TransactionCreateInputs
  /\ UNCHANGED <<requests, nextRequestId, accepting>>
  /\ IF ValidTransaction(TransactionOfBody(b))
     THEN /\ TransactionsStarted < MaxTransactions
          /\ transactions' = transactions \cup
                {StoredTransaction(TransactionOfBody(b), nextTransactionId)}
          /\ nextTransactionId' = nextTransactionId + 1
          /\ resp' = [op |-> "TransactionCreate", input |-> b, code |-> 201,
                      out |-> {StoredTransaction(TransactionOfBody(b),
                                                 nextTransactionId)}]
     ELSE /\ resp' = [op |-> "TransactionCreate", input |-> b, code |-> 400,
                      out |-> {}]
          /\ UNCHANGED <<transactions, nextTransactionId>>

\* GET /transactions/request/:exchangeRequestId
GetByRequestID(id) ==
  /\ id \in RequestIdInputs
  /\ resp' = [op |-> "GetByRequestID", id |-> id,
              code |-> IF id = BadId THEN 500
                       ELSE IF FindOneByRequest(id) = {} THEN 404 ELSE 200,
              out |-> FindOneByRequest(id)]
  /\ UNCHANGED <<requests, transactions, nextRequestId, nextTransactionId,
                 accepting>>

\* variant: findByIdAndUpdate without runValidators
ValidUpdate_NoValidators(status) == TRUE

\* the update validators of findByIdAndUpdate(id, body, {runValidators: true})
ValidUpdate(status) ==
  \/ status.kind = "undefined"
  \/ status.kind = "string" /\ status.str \in TransactionStatusEnum

\* PUT /transactions/:id with body {Status: status} or {}
TransactionUpdate(id, status) ==
  /\ id \in TransactionIdInputs
  /\ status \in TransactionStatusInputs
  /\ UNCHANGED <<requests, nextRequestId, nextTransactionId, accepting>>
  /\ IF id = BadId \/ ~ValidUpdate(status)
     THEN /\ resp' = [op |-> "TransactionUpdate", id |-> id, status |-> status,
                      code |-> 400, out |-> {}]
          /\ UNCHANGED transactions
     ELSE IF FindTransaction(id) = {}
     THEN /\ resp' = [op |-> "TransactionUpdate", id |-> id, status |-> status,
                      code |-> 404, out |-> {}]
          /\ UNCHANGED transactions
     ELSE LET t == CHOOSE x \in FindTransaction(id) : TRUE
              updatedTransaction ==
                IF status.kind = "undefined" THEN t
                ELSE [t EXCEPT !.Status = status.str]
          IN  /\ transactions' = (transactions \ {t}) \cup {updatedTransaction}
              /\ resp' = [op |-> "TransactionUpdate", id |-> id,
                          status |-> status, code |-> 200,
                          out |-> {updatedTransaction}]

\* DELETE /transactions/:id
TransactionDelete(id) ==
  /\ id \in TransactionIdInputs
  /\ transactions' = transactions \ FindTransaction(id)
  /\ resp' = [op |-> "TransactionDelete", id |-> id,
              code |-> IF id = BadId THEN 500
                       ELSE IF FindTransaction(id) = {} THEN 404 ELSE 200,
              out |-> {}]
  /\ UNCHANGED <<requests, nextRequestId, nextTransactionId, accepting>>

\* Specification ------------------------------------------------------------

Next ==
  \/ \E b \in CreateInputs : Create(b)
  \/ \E u \in UserInputs : ListForUser(u)
  \/ \E id \in RequestIdInputs : Get(id)
  \/ \E id \in RequestIdInputs, status \in StatusInputs : UpdateStatus(id, status)
  \/ \E u \in BagToSet(accepting) : AcceptSave(u)
  \/ \E id \in RequestIdInputs : Delete(id)
  \/ \E b \in TransactionCreateInputs : TransactionCreate(b)
  \/ \E id \in RequestIdInputs : GetByRequestID(id)
  \/ \E id \in TransactionIdInputs, status \in TransactionStatusInputs :
        TransactionUpdate(id, status)
  \/ \E id \in TransactionIdInputs : TransactionDelete(id)

Spec == Init /\ [][Next]_vars

\* Store faults and process crashes ------------------------------------------

\* variant: the catch block undoing the status write
SaveFails_RollsBack(u) ==
  /\ BagIn(u, accepting)
  /\ accepting' = accepting (-) SetToBag({u})
  /\ requests' = {IF r.id = u.id THEN [r EXCEPT !.Status = "Pending"] ELSE r :
                    r \in requests}
  /\ resp' = [op |-> "UpdateStatus", id |-> u.id,
              status |-> Str("Accepted"), code |-> 500, out |-> {}]
  /\ UNCHANGED <<transactions, nextRequestId, nextTransactionId>>

\* PUT /requests/:id when `await transaction.save()` throws a store error:
\* the catch block answers 500
SaveFails(u) ==
  /\ BagIn(u, accepting)
  /\ accepting' = accepting (-) SetToBag({u})
  /\ resp' = [op |-> "UpdateStatus", id |-> u.id,
              status |-> Str("Accepted"), code |-> 500, out |-> {}]
  /\ UNCHANGED <<requests, transactions, nextRequestId, nextTransactionId>>

\* the process dies: every suspended handler is lost without a response, the
\* collections stay as they are
Crash ==
  /\ accepting # EmptyBag
  /\ accepting' = EmptyBag
  /\ resp' = NoResponse
  /\ UNCHANGED <<requests, transactions, nextRequestId, nextTransactionId>>

NextWithFaults ==
  \/ Next
  \/ \E u \in BagToSet(accepting) : SaveFails(u)
  \/ Crash

SpecWithFaults == Init /\ [][NextWithFaults]_vars

\* Properties ---------------------------------------------------------------

\* the identifiers of a set of documents
IdsOf(S) == {d.id : d \in S}

\* the step suspends one more PUT /requests/:id handler at transaction.save()
AcceptStarts == BagCardinality(accepting') = BagCardinality(accepting) + 1

\* the step resumes the handler holding u and runs it to its response
AcceptCompletes(u) ==
  BagIn(u, accepting) /\ accepting' = accepting (-) SetToBag({u})

\* store and handlers are as before the step
StoreUnchanged ==
  UNCHANGED <<requests, transactions, nextRequestId, nextTransactionId,
              accepting>>

\* C1: UpdateStatus(id, Accepted) on an existing Pending request writes
\* Accepted on that Request and nothing else, and its handler then answers 200
\* and inserts exactly one Transaction: request reference id, owner the
\* Request's counterparty, book the Request's book, status Pending; no other
\* Transaction is added or changed.
C1_AcceptPendingCreatesOneTransaction ==
  [][ /\ \A r \in requests :
            ( /\ r.Status = "Pending"
              /\ AcceptStarts
              /\ r \notin requests' )
            => /\ requests' = (requests \ {r}) \cup {[r EXCEPT !.Status = "Accepted"]}
               /\ accepting' = accepting (+) SetToBag({[r EXCEPT !.Status = "Accepted"]})
               /\ transactions' = transactions
      /\ \A u \in BagToSet(accepting) :
            AcceptCompletes(u)
            => /\ resp'.op = "UpdateStatus" /\ resp'.id = u.id /\ resp'.code = 200
               /\ resp'.out = {u}
               /\ requests' = requests
               /\ \A r \in requests :
                     r.id = u.id => r.RequestedTo = u.RequestedTo /\ r.BookID = u.BookID
               /\ \E t \in transactions' :
                     /\ t.id \notin IdsOf(transactions)
                     /\ transactions' = transactions \cup {t}
                     /\ t.RequestID = u.id
                     /\ t.OwnerID = u.RequestedTo
                     /\ t.BooKID = u.BookID
                     /\ t.Status = "Pending"
    ]_vars

\* C1 witness: the only Transaction ever made belongs to the accepted request
\* the response just answered for
C1_Witness ==
  /\ resp.op = "UpdateStatus" /\ resp.code = 200 /\ resp.status = Str("Accepted")
  /\ nextTransactionId = 2
  /\ \E r \in requests, t \in transactions :
        /\ r.id = resp.id /\ r.Status = "Accepted"
        /\ t.RequestID = r.id /\ t.OwnerID = r.RequestedTo /\ t.BooKID = r.BookID

\* C2: UpdateStatus with a status outside {Pending, Accepted, Rejected}
\* (Modified and a missing status included), on any id, answers 400, leaves
\* every Request as it was and creates no Transaction.
C2_InvalidStatusRejected ==
  [][ ( /\ resp'.op = "UpdateStatus"
        /\ resp'.status \notin {Str("Pending"), Str("Accepted"), Str("Rejected")} )
      => /\ resp'.code = 400
         /\ StoreUnchanged
    ]_vars

\* C2 witness: Modified was refused for a stored request
C2_Witness ==
  /\ resp.op = "UpdateStatus" /\ resp.status = Str("Modified") /\ resp.code = 400
  /\ resp.id \in IdsOf(requests)

\* C3: Create with requesterID, bookID, deliveryMethod or duration absent or
\* empty answers 400, adds no Request and changes no Request or Transaction.
C3_CreateMissingFieldRejected ==
  [][ ( /\ resp'.op = "Create"
        /\ \/ resp'.input.RequestedBy \in {Undef, Str("")}
           \/ resp'.input.BookID \in {Undef, Str("")}
           \/ resp'.input.DeliveryMethod \in {Undef, Str("")}
           \/ resp'.input.Duration \in {Undef, Str("")} )
      => /\ resp'.code = 400
         /\ StoreUnchanged
    ]_vars

\* C3 witness: a body without duration was refused while a request is stored
C3_Witness ==
  /\ resp.op = "Create" /\ resp.input.Duration = Undef /\ resp.code = 400
  /\ requests # {}

\* C4 as claimed: Create with requesterID, bookID, a deliveryMethod of the
\* enum and a numeric duration answers 201 with one new Pending Request,
\* whether or not counterpartyID is supplied.
C4_CreateSucceedsWithoutCounterparty ==
  ( /\ resp.op = "Create"
    /\ resp.input.RequestedBy \in {Str(u) : u \in Users}
    /\ resp.input.BookID \in {Str("b1"), Str("b2")}
    /\ resp.input.DeliveryMethod \in {Str(m) : m \in DeliveryMethodEnum}
    /\ resp.input.Duration \in {Num(7), Str("7")} )
  => /\ resp.code = 201
     /\ \E r \in resp.out : resp.out = {r} /\ r \in requests /\ r.Status = "Pending"

\* C5 as claimed: Transaction Create with requestID, ownerID and bookID
\* present and a status that is absent or of the enum answers 201 and stores
\* a Transaction carrying the three values.
C5_DirectTransactionCreateSucceeds ==
  ( /\ resp.op = "TransactionCreate"
    /\ resp.input.RequestID # Undef
    /\ resp.input.OwnerID # Undef
    /\ resp.input.BooKID # Undef
    /\ \/ resp.input.Status = Undef
       \/ resp.input.Status \in {Str(x) : x \in TransactionStatusEnum} )
  => /\ resp.code = 201
     /\ \E t \in transactions :
           /\ resp.out = {t}
           /\ t.RequestID = resp.input.RequestID.num
           /\ t.OwnerID = resp.input.OwnerID.str
           /\ t.BooKID = resp.input.BooKID.str

\* C6: ListForUser(u) answers 200 with exactly the stored Requests whose
\* requester or counterparty is u, and changes no stored record.
C6_ListForUserExact ==
  [][ resp'.op = "ListForUser"
      => /\ resp'.code = 200
         /\ resp'.out =
              {r \in requests : r.RequestedBy = resp'.user \/ r.RequestedTo = resp'.user}
         /\ StoreUnchanged
    ]_vars

\* C6 witness: a listing that returned a Request matched by its counterparty
\* only and left another stored Request out
C6_Witness ==
  /\ resp.op = "ListForUser"
  /\ \E r \in resp.out : r.RequestedTo = resp.user /\ r.RequestedBy # resp.user
  /\ requests \ resp.out # {}

\* C7: a successful Delete(id) removes the Request id and nothing else, every
\* Transaction staying in place unchanged; GetByRequestID(id) answers 200
\* with a Transaction referencing id whenever one is stored, whether or not
\* the Request id still exists.
C7_DeleteDoesNotCascade ==
  [][ /\ ( resp'.op = "Delete" /\ resp'.code = 200 )
         => /\ \E r \in requests :
                  r.id = resp'.id /\ requests' = requests \ {r}
            /\ UNCHANGED <<transactions, accepting, nextRequestId,
                           nextTransactionId>>
      /\ ( /\ resp'.op = "GetByRequestID"
           /\ \E t \in transactions : t.RequestID = resp'.id )
         => /\ resp'.code = 200
            /\ \E t \in transactions : t.RequestID = resp'.id /\ resp'.out = {t}
            /\ StoreUnchanged
    ]_vars

\* C7 witness: GetByRequestID returned the Transaction of a Request that was
\* created and is gone
C7_Witness ==
  /\ resp.op = "GetByRequestID" /\ resp.code = 200
  /\ resp.id \in 1..(nextRequestId - 1)
  /\ resp.id \notin IdsOf(requests)
  /\ \E t \in resp.out : t \in transactions /\ t.RequestID = resp.id

\* C8: identifiers are never reused, so a Request that was created and is gone
\* stays gone; Get and Delete of a well-formed id that is not stored, and
\* UpdateStatus of it with a status of {Pending, Accepted, Rejected}, answer
\* 404 and change nothing (an UpdateStatus whose write preceded the Delete and
\* whose response follows it is not a later call); no UpdateStatus writes to
\* an absent Request.
C8_DeletedStaysNotFound ==
  [][ /\ \A id \in 1..(nextRequestId - 1) :
            id \notin IdsOf(requests) => id \notin IdsOf(requests')
      /\ ( /\ resp'.op \in {"Get", "Delete"}
           /\ resp'.id # BadId
           /\ resp'.id \notin IdsOf(requests) )
         => resp'.code = 404 /\ StoreUnchanged
      /\ ( /\ resp'.op = "UpdateStatus"
           /\ resp'.status \in {Str("Pending"), Str("Accepted"), Str("Rejected")}
           /\ resp'.id # BadId
           /\ resp'.id \notin IdsOf(requests)
           /\ accepting' = accepting )
         => resp'.code = 404 /\ StoreUnchanged
      /\ AcceptStarts
         => \E r \in requests :
               accepting' = accepting (+) SetToBag({[r EXCEPT !.Status = "Accepted"]})
    ]_vars

\* C8 witness: Get answered 404 for a Request that was created and deleted,
\* after a later Create
C8_Witness ==
  /\ resp.op = "Get" /\ resp.code = 404
  /\ resp.id \in 1..(nextRequestId - 1)
  /\ \E r \in requests : r.id > resp.id

StatusesEnumerated ==
  /\ \A r \in requests : r.Status \in {"Pending", "Accepted", "Rejected", "Modified"}
  /\ \A t \in transactions :
        t.Status \in {"Pending", "In Progress", "Shipping", "Delivered", "Cancelled"}

ReferencesTo(T, id) == {t \in T : t.RequestID = id}

\* C11: nothing serializes or deduplicates UpdateStatus(Accepted) calls on one
\* Request: a second call may write while the first is suspended before its
\* insert, every suspended handler can run its insert whatever is stored or
\* suspended besides, and each insert adds one more Transaction referencing
\* the Request, also when one references it already.
C11_ConcurrentAcceptsEachInsert ==
  /\ [](\A u \in BagToSet(accepting) : ENABLED AcceptSave(u))
  /\ [][ \A u \in BagToSet(accepting) :
            AcceptCompletes(u)
            => /\ resp'.code = 200
               /\ Cardinality(ReferencesTo(transactions', u.id)) =
                    Cardinality(ReferencesTo(transactions, u.id)) + 1
               /\ ReferencesTo(transactions, u.id) \subseteq transactions'
       ]_vars

\* C11 witness: a handler has just answered 200 and stored its Transaction
\* while another handler is suspended on the same Request, which was written
\* before that insert; by C11 its insert is enabled and adds a second one
C11_Witness ==
  /\ resp.op = "UpdateStatus" /\ resp.code = 200 /\ resp.status = Str("Accepted")
  /\ \E u \in BagToSet(accepting), t \in transactions :
        /\ u.id = resp.id
        /\ t.RequestID = resp.id
        /\ t.id = nextTransactionId - 1
        /\ \E r \in requests : r.id = resp.id

\* the Request id is stored as Accepted, no Transaction references it and no
\* handler is suspended on it
AcceptedWithoutTransaction(id) ==
  /\ \E r \in requests : r.id = id /\ r.Status = "Accepted"
  /\ ReferencesTo(transactions, id) = {}
  /\ \A u \in BagToSet(accepting) : u.id # id

\* C12: the status write and the insert are separate store steps without
\* rollback: a step that ends suspended handlers (insert, failed insert or
\* crash) never changes a Request, a failed insert answers 500 and stores no
\* Transaction, a crash stores none; and a Request left Accepted with no
\* Transaction stays so until a client deletes it or calls UpdateStatus on it
\* again.
C12_NoRollbackNoRepair ==
  [][ /\ BagCardinality(accepting') < BagCardinality(accepting)
         => /\ requests' = requests
            /\ \/ transactions' = transactions
               \/ /\ resp'.op = "UpdateStatus" /\ resp'.code = 200
                  /\ Cardinality(transactions') = Cardinality(transactions) + 1
      /\ ( resp'.op = "UpdateStatus" /\ resp'.code = 500 /\ resp'.id # BadId )
         => /\ \E u \in BagToSet(accepting) :
                  u.id = resp'.id /\ AcceptCompletes(u)
            /\ UNCHANGED <<requests, transactions, nextTransactionId>>
      /\ \A id \in RequestIds :
            ( AcceptedWithoutTransaction(id) /\ ~AcceptedWithoutTransaction(id)' )
            => \/ /\ resp'.op \in {"Delete", "UpdateStatus"}
                  /\ resp'.id = id /\ resp'.code = 200
                  /\ accepting' = accepting
               \/ /\ AcceptStarts
                  /\ \E u \in BagToSet(accepting') : u.id = id
    ]_vars

\* C12 witness: the insert failed, the caller got 500, and the Request is
\* stored as Accepted with no Transaction and no handler left to make one
C12_Witness ==
  /\ resp.op = "UpdateStatus" /\ resp.code = 500 /\ resp.id # BadId
  /\ AcceptedWithoutTransaction(resp.id)

\* C13: UpdateStatus does not consult the stored status: on a stored Request
\* in any status a call with Pending or Rejected answers 200 and writes that
\* status, a call with Accepted can write and suspend before its insert, and
\* no call with a status of {Pending, Accepted, Rejected} is refused; outside
\* Transaction Update and Delete, the number of Transactions referencing a
\* Request grows by one with each UpdateStatus(Accepted) that answers 200 and
\* changes in no other step, so it is not bounded by one.
C13_StatusNotConsulted ==
  /\ [](\A r \in requests :
          /\ \A s \in {"Pending", "Rejected"} : ENABLED UpdateStatus(r.id, Str(s))
          /\ TransactionsStarted < MaxTransactions
             => ENABLED (UpdateStatus(r.id, Str("Accepted")) /\ AcceptStarts))
  /\ [][ /\ ( /\ resp'.op = "UpdateStatus"
              /\ resp'.status \in {Str("Pending"), Str("Accepted"), Str("Rejected")}
              /\ resp'.id \in IdsOf(requests)
              /\ accepting' = accepting )
            => /\ resp'.code = 200
               /\ \E r \in requests :
                     /\ r.id = resp'.id
                     /\ requests' =
                          (requests \ {r}) \cup {[r EXCEPT !.Status = resp'.status.str]}
         /\ \A id \in RequestIds :
               resp'.op \notin {"TransactionUpdate", "TransactionDelete"}
               => Cardinality(ReferencesTo(transactions', id)) =
                    Cardinality(ReferencesTo(transactions, id)) +
                    ( IF /\ BagCardinality(accepting') < BagCardinality(accepting)
                         /\ resp'.op = "UpdateStatus" /\ resp'.code = 200
                         /\ resp'.id = id
                      THEN 1 ELSE 0 )
       ]_vars

\* C13 witness: two acceptances of one Request have answered 200, the second
\* written when the Request was no longer Pending, and two Transactions
\* reference it
C13_Witness ==
  /\ accepting = EmptyBag
  /\ resp.op = "UpdateStatus" /\ resp.code = 200 /\ resp.status = Str("Accepted")
  /\ \E r \in requests :
        /\ r.id = resp.id /\ r.Status = "Accepted"
        /\ Cardinality(ReferencesTo(transactions, r.id)) = 2

\* C14: UpdateStatus with Pending or Rejected creates, deletes and modifies no
\* Transaction and suspends no handler; when it answers 200 it changes the
\* status field of that one Request and nothing else, otherwise nothing.
\* Hence a Transaction made by an acceptance outlives a later Rejected or
\* Pending, and a Transaction may reference a Request that is not Accepted.
C14_RejectAndPendingLeaveTransactions ==
  [][ ( /\ resp'.op = "UpdateStatus"
        /\ resp'.status \in {Str("Pending"), Str("Rejected")} )
      => /\ UNCHANGED <<transactions, nextTransactionId, accepting, nextRequestId>>
         /\ IF resp'.code = 200
            THEN \E r \in requests :
                    /\ r.id = resp'.id
                    /\ requests' =
                         (requests \ {r}) \cup {[r EXCEPT !.Status = resp'.status.str]}
            ELSE requests' = requests
    ]_vars

\* C14 witness: a Request was accepted, its Transaction stored, and the
\* Request then set to Rejected: the Transaction is still there, Pending,
\* referencing a Request that is not Accepted
C14_Witness ==
  /\ resp.op = "UpdateStatus" /\ resp.code = 200 /\ resp.status = Str("Rejected")
  /\ \E r \in requests, t \in transactions :
        /\ r.id = resp.id /\ r.Status = "Rejected"
        /\ t.RequestID = r.id /\ t.OwnerID = r.RequestedTo /\ t.Status = "Pending"

====
